---- MODULE Spec2Model ----
(***************************************************************************)
(* Stack lifecycle orchestration of iac-sandbox: the request handlers of   *)
(* app/backend/src/api/stacks.py on top of PulumiService                   *)
(* (app/backend/src/services/pulumi_service.py), with the Pulumi engine    *)
(* modelled by the contract of the calls the service makes on it.          *)
(* Beside it the file service (api/files.py on services/file_service.py),  *)
(* in the variable files, and the cleanup script                           *)
(* (scripts/cleanup_stacks.py), in the variable cleanup.                   *)
(***************************************************************************)
EXTENDS Integers, Sequences, FiniteSets, TLC

VARIABLES engine, resp, gocFirst, gcpProject, pool, applied, files, cleanup

vars == <<engine, resp, gocFirst, gcpProject, pool, applied, files, cleanup>>

-----------------------------------------------------------------------------
(* Bounds of the model *)

\* largest resource count a stack reaches
MaxResources == 2
\* how many times one name may be created over a run
MaxEpoch == 2
\* longest configuration mapping a request carries
MaxPairs == 2
\* largest count an engine result carries (normalizer specification)
MaxCount == 1
\* how many service calls are made at once (executor specification)
MaxCallers == 5
\* threads that run units of work on one stack at once
MaxRacers == 2
\* create requests for files in progress at once
MaxCreates == 2
\* latest time of the clock and of the expiry tags (cleanup script)
MaxTime == 2

Names == {"dev-alice"}

-----------------------------------------------------------------------------
(* Configuration keys.  A key is namespace:name; a key written without a   *)
(* namespace is a key of the project, which is how infra/__main__.py reads *)
(* the keys the service wrote as "iac-sandbox:provider".                   *)

ProjectName == "iac-sandbox"

GCP_REGION == "us-central1"

Key(ns, name) == [ns |-> ns, name |-> name]

\* the engine stores a key written without a namespace under the project's
QualifyKey(k) == IF k.ns = "" THEN Key(ProjectName, k.name) ELSE k

\* settings.GCP_PROJECT_ID or os.environ.get("GCP_PROJECT_ID"): None or a name
NoProject == ""

ProjectIds == {NoProject, "my-project"}

AppImage(gcp) == IF gcp = "my-project"
                 THEN "us-central1-docker.pkg.dev/my-project/sudoku-repo/sudoku-app:master"
                 ELSE "us-central1-docker.pkg.dev//sudoku-repo/sudoku-app:master"

\* the four set_config calls of a creation, in the order of the code
DefaultPairs(gcp) ==
    << <<Key("gcp", "project"), gcp>>,
       <<Key("iac-sandbox", "provider"), "gcp">>,
       <<Key("iac-sandbox", "region"), GCP_REGION>>,
       <<Key("iac-sandbox", "app_image"), AppImage(gcp)>> >>

\* keys and values a client sends in a configuration mapping: one key with
\* and without its namespace
UpdKeys == {Key("", "provider"), Key("iac-sandbox", "provider")}

UpdVals == {"aws", "gcp"}

\* a dict of the request: pairs in insertion order, no key twice
ConfigDicts ==
    {<<>>} \cup
    UNION {{m \in [1..n -> UpdKeys \X UpdVals] :
               \A i, j \in 1..n : i # j => m[i][1] # m[j][1]} : n \in 1..MaxPairs}

EmptyMap == [k \in {} |-> ""]

Put(f, k, v) == [x \in (DOMAIN f) \cup {k} |-> IF x = k THEN v ELSE f[x]]

\* the exports of the program (infra/__main__.py), present after an apply
ProgramOutputs == [k \in {"cluster_name", "cluster_endpoint"} |-> "sandbox"]

\* the resources of an exported state (stack.export_stack()): each has a urn,
\* a parent (NoParent when the key is not there) and dependencies
URNs == {"urn:cluster", "urn:k8s-provider"}

NoParent == ""

ResourceBodies == [parent : {NoParent} \cup URNs, dependencies : SUBSET URNs]

\* every state.deployment["resources"] over the urns, no urn twice
Exports ==
    UNION {{{[urn |-> u, parent |-> b[u].parent,
              dependencies |-> b[u].dependencies] : u \in S} :
               b \in [S -> ResourceBodies]} : S \in SUBSET URNs}

-----------------------------------------------------------------------------
(* Faults: the engine call of a request that fails, if any.  call names    *)
(* the service call and the engine call inside it, at is the index of the  *)
(* failing set_config in a sequence of them.                               *)

Fault(svc, call, at) == [svc |-> svc, call |-> call, at |-> at]

NoFault == Fault("", "none", 0)

Hits(f, svc, call) == f.svc = svc /\ f.call = call

-----------------------------------------------------------------------------
(* The engine: the workspace of stacks *)

EngineInit ==
    [stacks    |-> {},
     config    |-> [n \in Names |-> EmptyMap],
     outputs   |-> [n \in Names |-> EmptyMap],
     resources |-> [n \in Names |-> 0],
     epoch     |-> [n \in Names |-> 0]]

\* auto.create_stack: a new, empty stack
EngCreate(e, n) ==
    [e EXCEPT !.stacks = @ \cup {n},
              !.config[n] = EmptyMap,
              !.outputs[n] = EmptyMap,
              !.resources[n] = 0,
              !.epoch[n] = @ + 1]

\* stack.set_config(key, ConfigValue(value))
EngSetConfig(e, n, k, v) ==
    [e EXCEPT !.config[n] = Put(@, QualifyKey(k), v)]

\* the first upto pairs of a sequence of set_config calls, in order
RECURSIVE ApplyPairs(_, _, _, _)
ApplyPairs(e, n, pairs, upto) ==
    IF upto = 0 THEN e
    ELSE EngSetConfig(ApplyPairs(e, n, pairs, upto - 1), n,
                      pairs[upto][1], pairs[upto][2])

\* (remove_stack with force=True)
EngRemoveForced(e, n) ==
    [ok  |-> TRUE,
     eng |-> [e EXCEPT !.stacks = @ \ {n},
                       !.config[n] = EmptyMap,
                       !.outputs[n] = EmptyMap,
                       !.resources[n] = 0]]

\* workspace.remove_stack(name), without force: refused while resources remain
EngRemove(e, n) ==
    IF e.resources[n] > 0
    THEN [ok |-> FALSE, eng |-> e]
    ELSE [ok  |-> TRUE,
          eng |-> [e EXCEPT !.stacks = @ \ {n},
                            !.config[n] = EmptyMap,
                            !.outputs[n] = EmptyMap,
                            !.resources[n] = 0]]

\* the handle auto.select_stack / auto.create_stack returns
Handle(e, n) == [name |-> n, epoch |-> e.epoch[n]]

NoHandle == [name |-> "", epoch |-> 0]

-----------------------------------------------------------------------------
(* PulumiService: each operation is one unit of work run on the executor.  *)
(* hit tells whether the failing engine call of the request was made.      *)

NoInfo == [name |-> "", config |-> EmptyMap, outputs |-> EmptyMap,
           resource_count |-> 0]

GocResult(e, exc, ret, attempted, hit) ==
    [eng |-> e, exc |-> exc, ret |-> ret, attempted |-> attempted, hit |-> hit]

\* (create without the select)
GetOrCreateAlwaysCreate(e, n, f, gcp) ==
    IF n \in e.stacks
    THEN GocResult(e, "StackAlreadyExistsError", NoHandle, TRUE, FALSE)
    ELSE IF Hits(f, "get_or_create", "create_stack")
    THEN GocResult(e, "CommandError", NoHandle, TRUE, TRUE)
    ELSE GocResult(EngCreate(e, n), "none", Handle(EngCreate(e, n), n), TRUE,
                   FALSE)

\* (the defaults written after the select as well)
GetOrCreateSeedsOnSelect(e, n, f, gcp) ==
    IF Hits(f, "get_or_create", "select_stack")
    THEN GocResult(e, "CommandError", NoHandle, FALSE, TRUE)
    ELSE IF n \notin e.stacks /\ Hits(f, "get_or_create", "create_stack")
    THEN GocResult(e, "CommandError", NoHandle, TRUE, TRUE)
    ELSE LET e1 == IF n \in e.stacks THEN e ELSE EngCreate(e, n)
             defaults == DefaultPairs(gcp)
         IN  IF gcp = NoProject
             THEN GocResult(e1, "none", Handle(e1, n), n \notin e.stacks, FALSE)
             ELSE IF Hits(f, "get_or_create", "set_config")
                     /\ f.at \in 1..Len(defaults)
             THEN GocResult(ApplyPairs(e1, n, defaults, f.at - 1),
                            "CommandError", NoHandle, n \notin e.stacks, TRUE)
             ELSE GocResult(ApplyPairs(e1, n, defaults, Len(defaults)),
                            "none", Handle(e1, n), n \notin e.stacks, FALSE)

\* get_or_create_stack._sync_get_or_create: select, and on
\* StackNotFoundError create and seed the defaults
SvcGetOrCreate(e, n, f, gcp) ==
    IF Hits(f, "get_or_create", "select_stack")
    THEN GocResult(e, "CommandError", NoHandle, FALSE, TRUE)
    ELSE IF n \in e.stacks
    THEN GocResult(e, "none", Handle(e, n), FALSE, FALSE)
    ELSE IF Hits(f, "get_or_create", "create_stack")
    THEN GocResult(e, "CommandError", NoHandle, TRUE, TRUE)
    ELSE LET e1 == EngCreate(e, n)
             defaults == DefaultPairs(gcp)
         IN  IF gcp = NoProject
             THEN GocResult(e1, "none", Handle(e1, n), TRUE, FALSE)
             ELSE IF Hits(f, "get_or_create", "set_config")
                     /\ f.at \in 1..Len(defaults)
             THEN GocResult(ApplyPairs(e1, n, defaults, f.at - 1),
                            "CommandError", NoHandle, TRUE, TRUE)
             ELSE GocResult(ApplyPairs(e1, n, defaults, Len(defaults)),
                            "none", Handle(e1, n), TRUE, FALSE)

InfoResult(none, caught, info, hit) ==
    [none |-> none, exc |-> "none", caught |-> caught, info |-> info,
     hit |-> hit]

\* get_stack_info._sync_get_info: None for an absent stack and for every
\* other exception; a failed outputs read gives outputs {}
SvcGetStackInfo(e, n, f) ==
    IF Hits(f, "get_stack_info", "select_stack")
    THEN InfoResult(TRUE, "CommandError", NoInfo, TRUE)
    ELSE IF n \notin e.stacks
    THEN InfoResult(TRUE, "StackNotFoundError", NoInfo, FALSE)
    ELSE IF Hits(f, "get_stack_info", "get_all_config")
            \/ Hits(f, "get_stack_info", "list_stacks")
    THEN InfoResult(TRUE, "CommandError", NoInfo, TRUE)
    ELSE InfoResult(FALSE, "",
                    [name |-> n,
                     config |-> e.config[n],
                     outputs |-> IF Hits(f, "get_stack_info", "outputs")
                                 THEN EmptyMap ELSE e.outputs[n],
                     resource_count |-> e.resources[n]],
                    Hits(f, "get_stack_info", "outputs"))

\* (the loop stops one pair short)
UpdateConfigDropsLast(e, n, m, f) ==
    IF Hits(f, "update_stack_config", "select_stack")
    THEN [eng |-> e, ok |-> FALSE, hit |-> TRUE]
    ELSE IF n \notin e.stacks
    THEN [eng |-> e, ok |-> FALSE, hit |-> FALSE]
    ELSE IF Hits(f, "update_stack_config", "set_config") /\ f.at \in 1..Len(m)
    THEN [eng |-> ApplyPairs(e, n, m, f.at - 1), ok |-> FALSE, hit |-> TRUE]
    ELSE [eng |-> ApplyPairs(e, n, m, IF Len(m) > 0 THEN Len(m) - 1 ELSE 0),
          ok |-> TRUE, hit |-> FALSE]

\* (the values set before the failing pair are taken back)
UpdateConfigRollsBack(e, n, m, f) ==
    IF Hits(f, "update_stack_config", "select_stack")
    THEN [eng |-> e, ok |-> FALSE, hit |-> TRUE]
    ELSE IF n \notin e.stacks
    THEN [eng |-> e, ok |-> FALSE, hit |-> FALSE]
    ELSE IF Hits(f, "update_stack_config", "set_config") /\ f.at \in 1..Len(m)
    THEN [eng |-> e, ok |-> FALSE, hit |-> TRUE]
    ELSE [eng |-> ApplyPairs(e, n, m, Len(m)), ok |-> TRUE, hit |-> FALSE]

\* update_stack_config._sync_update_config: the pairs in order, False on
\* the first exception
SvcUpdateConfig(e, n, m, f) ==
    IF Hits(f, "update_stack_config", "select_stack")
    THEN [eng |-> e, ok |-> FALSE, hit |-> TRUE]
    ELSE IF n \notin e.stacks
    THEN [eng |-> e, ok |-> FALSE, hit |-> FALSE]
    ELSE IF Hits(f, "update_stack_config", "set_config") /\ f.at \in 1..Len(m)
    THEN [eng |-> ApplyPairs(e, n, m, f.at - 1), ok |-> FALSE, hit |-> TRUE]
    ELSE [eng |-> ApplyPairs(e, n, m, Len(m)), ok |-> TRUE, hit |-> FALSE]

\* delete_stack._sync_delete: select, remove, False on any exception
SvcDeleteStack(e, n, f) ==
    IF Hits(f, "delete_stack", "select_stack")
    THEN [eng |-> e, ok |-> FALSE, hit |-> TRUE]
    ELSE IF n \notin e.stacks
    THEN [eng |-> e, ok |-> FALSE, hit |-> FALSE]
    ELSE IF Hits(f, "delete_stack", "remove_stack")
    THEN [eng |-> e, ok |-> FALSE, hit |-> TRUE]
    ELSE [eng |-> EngRemove(e, n).eng, ok |-> EngRemove(e, n).ok,
          hit |-> FALSE]

\* get_stack_outputs._sync_outputs: exceptions propagate
SvcGetOutputs(e, n, f) ==
    IF Hits(f, "get_stack_outputs", "select_stack")
    THEN [exc |-> "CommandError", outputs |-> EmptyMap, hit |-> TRUE]
    ELSE IF n \notin e.stacks
    THEN [exc |-> "StackNotFoundError", outputs |-> EmptyMap, hit |-> FALSE]
    ELSE IF Hits(f, "get_stack_outputs", "outputs")
    THEN [exc |-> "CommandError", outputs |-> EmptyMap, hit |-> TRUE]
    ELSE [exc |-> "none", outputs |-> e.outputs[n], hit |-> FALSE]

\* (the exception of the listing is let through)
ListStacksRaises(e, f) ==
    IF Hits(f, "list_stacks", "LocalWorkspace") \/ Hits(f, "list_stacks", "list_stacks")
    THEN [exc |-> "CommandError", stacks |-> {}, hit |-> TRUE]
    ELSE [exc |-> "none",
          stacks |-> {[name |-> n, resource_count |-> e.resources[n]] :
                         n \in e.stacks},
          hit |-> FALSE]

\* list_stacks._sync_list_stacks: one dict per stack of the workspace, []
\* on any exception
SvcListStacks(e, f) ==
    IF Hits(f, "list_stacks", "LocalWorkspace") \/ Hits(f, "list_stacks", "list_stacks")
    THEN [exc |-> "none", stacks |-> {}, hit |-> TRUE]
    ELSE [exc |-> "none",
          stacks |-> {[name |-> n, resource_count |-> e.resources[n]] :
                         n \in e.stacks},
          hit |-> FALSE]

\* get_stack_resources._sync_resources: one dict per exported resource,
\* with the references as the export has them; exceptions propagate
SvcGetResources(e, n, f, export) ==
    IF Hits(f, "get_stack_resources", "select_stack")
    THEN [exc |-> "CommandError", resources |-> {}, hit |-> TRUE]
    ELSE IF n \notin e.stacks
    THEN [exc |-> "StackNotFoundError", resources |-> {}, hit |-> FALSE]
    ELSE IF Hits(f, "get_stack_resources", "export_stack")
    THEN [exc |-> "CommandError", resources |-> {}, hit |-> TRUE]
    ELSE [exc |-> "none",
          resources |-> {[urn |-> r.urn, parent |-> r.parent,
                          dependencies |-> r.dependencies] : r \in export},
          hit |-> FALSE]

-----------------------------------------------------------------------------
(* Engine results of the lifecycle calls.  field says how the result holds *)
(* the attribute with the counts (change_summary of a PreviewResult,       *)
(* summary.resource_changes of the others): not there, None, or a dict.    *)

OpKeys == {"create", "update", "delete", "same"}

EmptyCounts == [k \in {} |-> 0]

Raw(field, counts) == [field |-> field, counts |-> counts]

\* the dict of a result that took a stack from pre to post resources; the
\* engine leaves out the operations it did not perform
ChangesOf(pre, post) ==
    LET all == [k \in OpKeys |->
                  CASE k = "create" -> IF post > pre THEN post - pre ELSE 0
                    [] k = "delete" -> IF pre > post THEN pre - post ELSE 0
                    [] k = "same"   -> IF pre < post THEN pre ELSE post
                    [] OTHER        -> 0]
    IN  [k \in {x \in OpKeys : all[x] > 0} |-> all[k]]

RawFields == {"absent", "null", "dict"}

\* dict.get(key, 0)
DictGet(d, k) == IF k \in DOMAIN d THEN d[k] ELSE 0

OpResult(e, exc, raw, hit) ==
    [eng |-> e, exc |-> exc, result |-> raw, hit |-> hit]

\* (select_stack replaced by a select-or-create)
PreviewCreatesMissing(e, n, f, raw) ==
    IF Hits(f, "preview_stack", "select_stack")
       \/ Hits(f, "preview_stack", "preview")
    THEN OpResult(e, "CommandError", raw, TRUE)
    ELSE IF n \notin e.stacks
    THEN OpResult(EngCreate(e, n), "none", raw, FALSE)
    ELSE OpResult(e, "none", raw, FALSE)

\* (stack.up called where stack.preview is)
PreviewApplies(e, n, f, raw) ==
    IF Hits(f, "preview_stack", "select_stack")
    THEN OpResult(e, "CommandError", raw, TRUE)
    ELSE IF n \notin e.stacks
    THEN OpResult(e, "StackNotFoundError", raw, FALSE)
    ELSE IF Hits(f, "preview_stack", "preview")
    THEN OpResult(e, "CommandError", raw, TRUE)
    ELSE OpResult([e EXCEPT !.resources[n] = 1,
                            !.outputs[n] = ProgramOutputs],
                  "none", raw, FALSE)

\* preview_stack._sync_preview: stack.preview, no change to the stack
SvcPreview(e, n, f, raw) ==
    IF Hits(f, "preview_stack", "select_stack")
    THEN OpResult(e, "CommandError", raw, TRUE)
    ELSE IF n \notin e.stacks
    THEN OpResult(e, "StackNotFoundError", raw, FALSE)
    ELSE IF Hits(f, "preview_stack", "preview")
    THEN OpResult(e, "CommandError", raw, TRUE)
    ELSE OpResult(e, "none", raw, FALSE)

\* (the outputs registered before the resources are made)
UpWritesOutputsFirst(e, n, f, r, raw) ==
    IF Hits(f, "up_stack", "select_stack")
    THEN OpResult(e, "CommandError", raw, TRUE)
    ELSE IF n \notin e.stacks
    THEN OpResult(e, "StackNotFoundError", raw, FALSE)
    ELSE IF Hits(f, "up_stack", "up")
    THEN OpResult([e EXCEPT !.resources[n] = r,
                            !.outputs[n] = ProgramOutputs],
                  "CommandError", raw, TRUE)
    ELSE OpResult([e EXCEPT !.resources[n] = r,
                            !.outputs[n] = ProgramOutputs],
                  "none", raw, FALSE)

\* up_stack._sync_up: stack.up leaves r resources and the program's
\* outputs; a failed up may have applied a part
SvcUp(e, n, f, r, raw) ==
    IF Hits(f, "up_stack", "select_stack")
    THEN OpResult(e, "CommandError", raw, TRUE)
    ELSE IF n \notin e.stacks
    THEN OpResult(e, "StackNotFoundError", raw, FALSE)
    ELSE IF Hits(f, "up_stack", "up")
    THEN OpResult([e EXCEPT !.resources[n] = r], "CommandError", raw, TRUE)
    ELSE OpResult([e EXCEPT !.resources[n] = r,
                            !.outputs[n] = ProgramOutputs],
                  "none", raw, FALSE)

\* destroy_stack._sync_destroy: stack.destroy removes every resource; a
\* failed destroy leaves r of them
SvcDestroy(e, n, f, r, raw) ==
    IF Hits(f, "destroy_stack", "select_stack")
    THEN OpResult(e, "CommandError", raw, TRUE)
    ELSE IF n \notin e.stacks
    THEN OpResult(e, "StackNotFoundError", raw, FALSE)
    ELSE IF Hits(f, "destroy_stack", "destroy")
    THEN OpResult([e EXCEPT !.resources[n] = r], "CommandError", raw, TRUE)
    ELSE OpResult([e EXCEPT !.resources[n] = 0, !.outputs[n] = EmptyMap],
                  "none", raw, FALSE)

\* refresh_stack._sync_refresh: stack.refresh drops from the state what is
\* gone, r resources remain
SvcRefresh(e, n, f, r, raw) ==
    IF Hits(f, "refresh_stack", "select_stack")
    THEN OpResult(e, "CommandError", raw, TRUE)
    ELSE IF n \notin e.stacks
    THEN OpResult(e, "StackNotFoundError", raw, FALSE)
    ELSE IF Hits(f, "refresh_stack", "refresh")
    THEN OpResult(e, "CommandError", raw, TRUE)
    ELSE OpResult([e EXCEPT !.resources[n] = r], "none", raw, FALSE)

-----------------------------------------------------------------------------
(* The summary a handler builds from an engine result (api/stacks.py)      *)

Summary(c, u, d, s) ==
    [present |-> TRUE, created |-> c, updated |-> u, deleted |-> d,
     unchanged |-> s]

\* DeploymentResult.summary is Optional, None by default
NoSummary ==
    [present |-> FALSE, created |-> 0, updated |-> 0, deleted |-> 0,
     unchanged |-> 0]

\* result.X.get(key, 0) if hasattr(result, X) else 0, four times: None has
\* no get
SummaryOfCounts(raw) ==
    IF raw.field = "absent"
    THEN [exc |-> "none", summary |-> Summary(0, 0, 0, 0)]
    ELSE IF raw.field = "null"
    THEN [exc |-> "AttributeError", summary |-> NoSummary]
    ELSE [exc |-> "none",
          summary |-> Summary(DictGet(raw.counts, "create"),
                              DictGet(raw.counts, "update"),
                              DictGet(raw.counts, "delete"),
                              DictGet(raw.counts, "same"))]

\* preview_stack, lines 141-146
NormalizePreview(raw) == SummaryOfCounts(raw)

\* deploy_stack, lines 178-183
NormalizeUp(raw) == SummaryOfCounts(raw)

\* destroy_stack, lines 210-212: deleted alone, the rest by default
NormalizeDestroy(raw) ==
    IF raw.field = "absent"
    THEN [exc |-> "none", summary |-> Summary(0, 0, 0, 0)]
    ELSE IF raw.field = "null"
    THEN [exc |-> "AttributeError", summary |-> NoSummary]
    ELSE [exc |-> "none",
          summary |-> Summary(0, 0, DictGet(raw.counts, "delete"), 0)]

-----------------------------------------------------------------------------
(* The request handlers (api/stacks.py).  A handler gives the engine after *)
(* the request, the reply, and what its service calls returned.            *)

NoResult ==
    [stack_name |-> "", operation |-> "", status |-> "",
     summary |-> NoSummary, outputs |-> EmptyMap]

DeploymentResult(n, operation, summary, outputs) ==
    [stack_name |-> n, operation |-> operation, status |-> "completed",
     summary |-> summary, outputs |-> outputs]

\* kind: StackInfo, DeploymentResult, Outputs, Resources, Message, Null (a None
\* returned as the body) or Error (an HTTPException, a failed response)
Reply(status, kind, detail, info, result) ==
    [status |-> status, kind |-> kind, detail |-> detail, info |-> info,
     result |-> result, resources |-> {}, stacks |-> {}]

ErrorReply(status, detail) == Reply(status, "Error", detail, NoInfo, NoResult)

InfoReply(status, info) == Reply(status, "StackInfo", "", info, NoResult)

NullReply(status) == Reply(status, "Null", "", NoInfo, NoResult)

ResourcesReply(status, resources) ==
    [Reply(status, "Resources", "", NoInfo, NoResult)
        EXCEPT !.resources = resources]

\* what the service calls of a request returned: the exception of the call
\* that raised, the bool of update/delete, whether get_stack_info gave None
\* and on which exception, whether a create was attempted, the handle
Trace(exc, ok, infoNone, caught, attempted, handle, hit) ==
    [exc |-> exc, ok |-> ok, infoNone |-> infoNone, caught |-> caught,
     attempted |-> attempted, handle |-> handle, hit |-> hit]

Handled(e, reply, trace) == [eng |-> e, reply |-> reply, trace |-> trace]

\* (the None of get_stack_info returned as it is)
GetStackPassNone(e, n, f) ==
    LET i == SvcGetStackInfo(e, n, f)
    IN  Handled(e,
                IF i.none THEN NullReply(200) ELSE InfoReply(200, i.info),
                Trace("none", TRUE, i.none, i.caught, FALSE, NoHandle, i.hit))

\* GET /stacks: the summaries the service returned
ApiListStacks(e, f) ==
    LET l == SvcListStacks(e, f)
    IN  Handled(e,
                IF l.exc # "none" THEN ErrorReply(500, l.exc)
                ELSE [Reply(200, "Summaries", "", NoInfo, NoResult)
                         EXCEPT !.stacks = l.stacks],
                Trace(l.exc, TRUE, FALSE, "", FALSE, NoHandle, l.hit))

\* GET /stacks/{stack_name}: 404 for a None
ApiGetStack(e, n, f) ==
    LET i == SvcGetStackInfo(e, n, f)
    IN  Handled(e,
                IF i.none THEN ErrorReply(404, "Stack not found")
                ELSE InfoReply(200, i.info),
                Trace("none", TRUE, i.none, i.caught, FALSE, NoHandle, i.hit))

\* POST /stacks: get_or_create, update_stack_config when a config is given
\* (its bool is dropped), get_stack_info; response_model=StackInfo refuses
\* a None body
ApiCreateStack(e, n, cfg, f, gcp) ==
    LET g == SvcGetOrCreate(e, n, f, gcp)
        u == IF cfg # <<>> THEN SvcUpdateConfig(g.eng, n, cfg, f)
             ELSE [eng |-> g.eng, ok |-> TRUE, hit |-> FALSE]
        i == SvcGetStackInfo(u.eng, n, f)
    IN  IF g.exc # "none"
        THEN Handled(g.eng, ErrorReply(500, g.exc),
                     Trace(g.exc, TRUE, FALSE, "", g.attempted, g.ret, g.hit))
        ELSE Handled(u.eng,
                     IF i.none THEN ErrorReply(500, "ResponseValidationError")
                     ELSE InfoReply(201, i.info),
                     Trace("none", u.ok, i.none, i.caught, g.attempted, g.ret,
                           u.hit \/ i.hit))

\* DELETE /stacks/{stack_name}: the HTTPException of a False is caught by
\* the handler's own except and raised again
ApiDeleteStack(e, n, f) ==
    LET d == SvcDeleteStack(e, n, f)
    IN  Handled(d.eng,
                IF d.ok THEN Reply(200, "Message", "", NoInfo, NoResult)
                ELSE ErrorReply(500, "500: Failed to delete stack"),
                Trace("none", d.ok, FALSE, "", FALSE, NoHandle, d.hit))

\* PUT /stacks/{stack_name}/config: no response_model, a None is the body
ApiUpdateStackConfig(e, n, m, f) ==
    LET u == SvcUpdateConfig(e, n, m, f)
        i == SvcGetStackInfo(u.eng, n, f)
    IN  IF ~u.ok
        THEN Handled(u.eng,
                     ErrorReply(500, "500: Failed to update configuration"),
                     Trace("none", FALSE, FALSE, "", FALSE, NoHandle, u.hit))
        ELSE Handled(u.eng,
                     IF i.none THEN NullReply(200) ELSE InfoReply(200, i.info),
                     Trace("none", TRUE, i.none, i.caught, FALSE, NoHandle,
                           i.hit))

\* GET /stacks/{stack_name}/outputs
ApiGetStackOutputs(e, n, f) ==
    LET o == SvcGetOutputs(e, n, f)
    IN  Handled(e,
                IF o.exc # "none" THEN ErrorReply(500, o.exc)
                ELSE Reply(200, "Outputs", "", NoInfo,
                           [NoResult EXCEPT !.outputs = o.outputs]),
                Trace(o.exc, TRUE, FALSE, "", FALSE, NoHandle, o.hit))

\* GET /stacks/{stack_name}/resources
ApiGetStackResources(e, n, f, export) ==
    LET r == SvcGetResources(e, n, f, export)
    IN  Handled(e,
                IF r.exc # "none" THEN ErrorReply(500, r.exc)
                ELSE ResourcesReply(200, r.resources),
                Trace(r.exc, TRUE, FALSE, "", FALSE, NoHandle, r.hit))

\* POST /stacks/{stack_name}/preview
ApiPreviewStack(e, n, f, raw) ==
    LET p == SvcPreview(e, n, f, raw)
        s == NormalizePreview(p.result)
    IN  Handled(p.eng,
                IF p.exc # "none" THEN ErrorReply(500, p.exc)
                ELSE IF s.exc # "none" THEN ErrorReply(500, s.exc)
                ELSE Reply(200, "DeploymentResult", "", NoInfo,
                           DeploymentResult(n, "preview", s.summary, EmptyMap)),
                Trace(p.exc, TRUE, FALSE, "", FALSE, NoHandle, p.hit))

\* POST /stacks/{stack_name}/up: the outputs read is in a try of its own
ApiDeployStack(e, n, f, r, raw) ==
    LET u == SvcUp(e, n, f, r, raw)
        o == SvcGetOutputs(u.eng, n, f)
        outputs == IF o.exc # "none" THEN EmptyMap ELSE o.outputs
        s == NormalizeUp(u.result)
    IN  Handled(u.eng,
                IF u.exc # "none" THEN ErrorReply(500, u.exc)
                ELSE IF s.exc # "none" THEN ErrorReply(500, s.exc)
                ELSE Reply(200, "DeploymentResult", "", NoInfo,
                           DeploymentResult(n, "up", s.summary, outputs)),
                Trace(u.exc, TRUE, FALSE, "", FALSE, NoHandle,
                      u.hit \/ (u.exc = "none" /\ o.hit)))

\* (the result of destroy labelled as the one of up)
DestroyStackLabelledUp(e, n, f, r, raw) ==
    LET d == SvcDestroy(e, n, f, r, raw)
        s == NormalizeDestroy(d.result)
    IN  Handled(d.eng,
                IF d.exc # "none" THEN ErrorReply(500, d.exc)
                ELSE IF s.exc # "none" THEN ErrorReply(500, s.exc)
                ELSE Reply(200, "DeploymentResult", "", NoInfo,
                           DeploymentResult(n, "up", s.summary, EmptyMap)),
                Trace(d.exc, TRUE, FALSE, "", FALSE, NoHandle, d.hit))

\* POST /stacks/{stack_name}/destroy
ApiDestroyStack(e, n, f, r, raw) ==
    LET d == SvcDestroy(e, n, f, r, raw)
        s == NormalizeDestroy(d.result)
    IN  Handled(d.eng,
                IF d.exc # "none" THEN ErrorReply(500, d.exc)
                ELSE IF s.exc # "none" THEN ErrorReply(500, s.exc)
                ELSE Reply(200, "DeploymentResult", "", NoInfo,
                           DeploymentResult(n, "destroy", s.summary, EmptyMap)),
                Trace(d.exc, TRUE, FALSE, "", FALSE, NoHandle, d.hit))

\* POST /stacks/{stack_name}/refresh: the body is the stack's info
ApiRefreshStack(e, n, f, r, raw) ==
    LET x == SvcRefresh(e, n, f, r, raw)
        i == SvcGetStackInfo(x.eng, n, f)
    IN  IF x.exc # "none"
        THEN Handled(x.eng, ErrorReply(500, x.exc),
                     Trace(x.exc, TRUE, FALSE, "", FALSE, NoHandle, x.hit))
        ELSE Handled(x.eng,
                     IF i.none THEN NullReply(200) ELSE InfoReply(200, i.info),
                     Trace("none", TRUE, i.none, i.caught, FALSE, NoHandle,
                           i.hit))

-----------------------------------------------------------------------------
(* The bridge of PulumiService: every public operation is                  *)
(*   await asyncio.get_event_loop().run_in_executor(self.executor, fn)     *)
(* with self.executor = ThreadPoolExecutor(max_workers=4).  A call is      *)
(* idle (not made yet), queued (its unit of work is in the executor's      *)
(* queue), running (a worker thread executes it), finished (the worker has *)
(* set the future) or returned (the awaiting caller has the result or the  *)
(* exception).                                                             *)

MaxWorkers == 4

Callers == 1..MaxCallers

PoolNames == {"dev-alice", "dev-bob"}

PoolOps == {"preview_stack", "up_stack", "destroy_stack", "refresh_stack"}

\* the stack a caller targets
NameOf(c) == IF c % 2 = 1 THEN "dev-alice" ELSE "dev-bob"

\* runs counts the executions of a call's unit of work, calls the engine
\* lifecycle calls it made, exc is what the unit of work raised
PoolOf(op) ==
    [op       |-> op,
     phase    |-> [c \in Callers |-> "idle"],
     queue    |-> <<>>,
     runs     |-> [c \in Callers |-> 0],
     calls    |-> [c \in Callers |-> 0],
     finished |-> [c \in Callers |-> FALSE],
     exc      |-> [c \in Callers |-> ""]]

PoolIdle == PoolOf("")

Running(p) == {c \in Callers : p.phase[c] = "running"}

-----------------------------------------------------------------------------
(* The state machine: one action per request handler, and the reply going  *)
(* out.  resp is the request being answered, with its reply; gocFirst[n]   *)
(* is the handle the first get_or_create_stack call for n that no engine   *)
(* failure hit returned since the last delete_stack call for n (NoHandle   *)
(* when there was none), and resp.prior is its value before the request.   *)
(* applied[n] tells what became of the up calls on the stack n since it    *)
(* was created: "none" (no up was made), "failed" (none succeeded) or      *)
(* "ok" (one succeeded).                                                   *)
(* A request whose mapping or engine result is never read, because the     *)
(* handler raised before, is taken with the empty one.                     *)

ListFaults ==
    {Fault("list_stacks", c, 1) : c \in {"LocalWorkspace", "list_stacks"}}

InfoFaults ==
    {Fault("get_stack_info", c, 1) :
        c \in {"select_stack", "get_all_config", "outputs", "list_stacks"}}

UpdateFaults ==
    {Fault("update_stack_config", "select_stack", 1)}
    \cup {Fault("update_stack_config", "set_config", k) : k \in 1..MaxPairs}

GetOrCreateFaults ==
    {Fault("get_or_create", c, 1) : c \in {"select_stack", "create_stack"}}
    \cup {Fault("get_or_create", "set_config", k) : k \in 1..4}

DeleteFaults ==
    {Fault("delete_stack", c, 1) : c \in {"select_stack", "remove_stack"}}

OutputsFaults ==
    {Fault("get_stack_outputs", c, 1) : c \in {"select_stack", "outputs"}}

ResourcesFaults ==
    {Fault("get_stack_resources", c, 1) : c \in {"select_stack", "export_stack"}}

LifecycleFaults(svc, call) ==
    {Fault(svc, "select_stack", 1), Fault(svc, call, 1)}

\* the results the engine may hand back for a run from pre to post resources
ResultsFor(pre, post) ==
    {Raw("absent", EmptyCounts), Raw("null", EmptyCounts),
     Raw("dict", ChangesOf(pre, post))}

NoRaw == Raw("absent", EmptyCounts)

NoRequest ==
    [op |-> "none", name |-> "", fault |-> NoFault, arg |-> <<>>,
     export |-> {}, raw |-> NoRaw, pre |-> EngineInit, prior |-> NoHandle,
     reply |-> Reply(0, "None", "", NoInfo, NoResult),
     trace |-> Trace("none", TRUE, FALSE, "", FALSE, NoHandle, FALSE)]

\* the handler runs on a request; f is the engine call that failed in it
Respond(op, n, f, arg, raw, h) ==
    /\ f = NoFault \/ h.trace.hit
    /\ engine' = h.eng
    /\ resp' = [op |-> op, name |-> n, fault |-> f, arg |-> arg,
                export |-> {}, raw |-> raw,
                pre |-> engine, prior |-> gocFirst[n], reply |-> h.reply,
                trace |-> h.trace]

Init ==
    /\ engine = EngineInit
    /\ resp = NoRequest
    /\ gocFirst = [n \in Names |-> NoHandle]
    /\ gcpProject \in ProjectIds
    /\ files = <<>>
    /\ cleanup = <<>>
    /\ pool = PoolIdle
    /\ applied = [n \in Names |-> "none"]

list_stacks ==
    /\ resp = NoRequest
    /\ \E f \in {NoFault} \cup ListFaults :
           LET h == ApiListStacks(engine, f)
           IN  /\ f = NoFault \/ h.trace.hit
               /\ engine' = h.eng
               /\ resp' = [NoRequest EXCEPT
                              !.op = "list_stacks", !.fault = f, !.pre = engine,
                              !.reply = h.reply, !.trace = h.trace]
               /\ UNCHANGED <<gocFirst, gcpProject, files, cleanup, pool, applied>>

get_stack ==
    /\ resp = NoRequest
    /\ \E n \in Names, f \in {NoFault} \cup InfoFaults :
           /\ Respond("get_stack", n, f, <<>>, NoRaw, ApiGetStack(engine, n, f))
           /\ UNCHANGED <<gocFirst, gcpProject, files, cleanup, pool, applied>>

create_stack ==
    /\ resp = NoRequest
    /\ \E n \in Names, cfg \in ConfigDicts,
          f \in {NoFault} \cup GetOrCreateFaults \cup UpdateFaults \cup InfoFaults :
           /\ n \in engine.stacks \/ engine.epoch[n] < MaxEpoch
           /\ f.svc = "get_or_create" => cfg = <<>>
           /\ LET h == ApiCreateStack(engine, n, cfg, f, gcpProject)
              IN  /\ Respond("create_stack", n, f, cfg, NoRaw, h)
                  /\ gocFirst' = [gocFirst EXCEPT ![n] =
                                     IF @ = NoHandle /\ f.svc # "get_or_create"
                                     THEN h.trace.handle ELSE @]
           /\ UNCHANGED <<gcpProject, files, cleanup, pool, applied>>

delete_stack ==
    /\ resp = NoRequest
    /\ \E n \in Names, f \in {NoFault} \cup DeleteFaults :
           /\ Respond("delete_stack", n, f, <<>>, NoRaw, ApiDeleteStack(engine, n, f))
           /\ gocFirst' = [gocFirst EXCEPT ![n] = NoHandle]
           /\ applied' = [applied EXCEPT ![n] =
                             IF n \in ApiDeleteStack(engine, n, f).eng.stacks
                             THEN @ ELSE "none"]
           /\ UNCHANGED <<gcpProject, files, cleanup, pool>>

update_stack_config ==
    /\ resp = NoRequest
    /\ \E n \in Names, m \in ConfigDicts,
          f \in {NoFault} \cup UpdateFaults \cup InfoFaults :
           /\ (n \notin engine.stacks
               \/ Hits(f, "update_stack_config", "select_stack")) => m = <<>>
           /\ Respond("update_stack_config", n, f, m, NoRaw,
                      ApiUpdateStackConfig(engine, n, m, f))
           /\ UNCHANGED <<gocFirst, gcpProject, files, cleanup, pool, applied>>

get_stack_outputs ==
    /\ resp = NoRequest
    /\ \E n \in Names, f \in {NoFault} \cup OutputsFaults :
           /\ Respond("get_stack_outputs", n, f, <<>>, NoRaw,
                      ApiGetStackOutputs(engine, n, f))
           /\ UNCHANGED <<gocFirst, gcpProject, files, cleanup, pool, applied>>

get_stack_resources ==
    /\ resp = NoRequest
    /\ \E n \in Names, f \in {NoFault} \cup ResourcesFaults, export \in Exports :
           LET h == ApiGetStackResources(engine, n, f, export)
           IN  /\ f = NoFault \/ h.trace.hit
               /\ Cardinality(export) <= engine.resources[n]
               /\ h.trace.exc # "none" => export = {}
               /\ engine' = h.eng
               /\ resp' = [NoRequest EXCEPT
                              !.op = "get_stack_resources", !.name = n,
                              !.fault = f, !.export = export, !.pre = engine,
                              !.prior = gocFirst[n], !.reply = h.reply,
                              !.trace = h.trace]
               /\ UNCHANGED <<gocFirst, gcpProject, files, cleanup, pool, applied>>

preview_stack ==
    /\ resp = NoRequest
    /\ \E n \in Names,
          f \in {NoFault} \cup LifecycleFaults("preview_stack", "preview"),
          r \in 1..MaxResources :
           \E raw \in ResultsFor(engine.resources[n], r) :
               LET h == ApiPreviewStack(engine, n, f, raw)
               IN  /\ h.trace.exc # "none" => raw = NoRaw
                   /\ Respond("preview_stack", n, f, <<>>, raw, h)
                   /\ UNCHANGED <<gocFirst, gcpProject, files, cleanup, pool, applied>>

deploy_stack ==
    /\ resp = NoRequest
    /\ \E n \in Names,
          f \in {NoFault} \cup LifecycleFaults("up_stack", "up") \cup OutputsFaults,
          r \in 0..MaxResources :
           \E raw \in ResultsFor(engine.resources[n], r) :
               LET h == ApiDeployStack(engine, n, f, r, raw)
               IN  /\ r = 0 => Hits(f, "up_stack", "up")
                   /\ h.trace.exc # "none" => raw = NoRaw
                   /\ Respond("deploy_stack", n, f, <<>>, raw, h)
                   /\ applied' = [applied EXCEPT ![n] =
                                     IF h.trace.exc = "none" THEN "ok"
                                     ELSE IF Hits(f, "up_stack", "up") /\ @ # "ok"
                                     THEN "failed" ELSE @]
                   /\ UNCHANGED <<gocFirst, gcpProject, files, cleanup, pool>>

destroy_stack ==
    /\ resp = NoRequest
    /\ \E n \in Names,
          f \in {NoFault} \cup LifecycleFaults("destroy_stack", "destroy") :
           \E r \in 0..engine.resources[n] :
               \E raw \in ResultsFor(engine.resources[n], r) :
                   LET h == ApiDestroyStack(engine, n, f, r, raw)
                   IN  /\ r > 0 => Hits(f, "destroy_stack", "destroy")
                       /\ h.trace.exc # "none" => raw = NoRaw
                       /\ Respond("destroy_stack", n, f, <<>>, raw, h)
                       /\ UNCHANGED <<gocFirst, gcpProject, files, cleanup, pool, applied>>

refresh_stack ==
    /\ resp = NoRequest
    /\ \E n \in Names,
          f \in {NoFault} \cup LifecycleFaults("refresh_stack", "refresh")
                \cup InfoFaults :
           \E r \in 0..engine.resources[n] :
               /\ Respond("refresh_stack", n, f, <<>>, NoRaw,
                          ApiRefreshStack(engine, n, f, r, NoRaw))
               /\ UNCHANGED <<gocFirst, gcpProject, files, cleanup, pool, applied>>

\* the reply has gone out; the next request is taken
send_response ==
    /\ resp # NoRequest
    /\ resp' = NoRequest
    /\ UNCHANGED <<engine, gocFirst, gcpProject, files, cleanup, pool, applied>>

Next ==
    \/ list_stacks
    \/ get_stack
    \/ create_stack
    \/ delete_stack
    \/ update_stack_config
    \/ get_stack_outputs
    \/ get_stack_resources
    \/ preview_stack
    \/ deploy_stack
    \/ destroy_stack
    \/ refresh_stack
    \/ send_response

Spec == Init /\ [][Next]_vars

-----------------------------------------------------------------------------
(* The normalizers alone: an engine result of any shape for each handler   *)
(* that builds a summary.                                                  *)

CountDicts == UNION {[S -> 0..MaxCount] : S \in SUBSET OpKeys}

AllRaws ==
    {Raw("absent", EmptyCounts), Raw("null", EmptyCounts)}
    \cup {Raw("dict", c) : c \in CountDicts}

SummaryHandlers == {"preview_stack", "deploy_stack", "destroy_stack"}

NormalizerOf(op, raw) ==
    CASE op = "preview_stack" -> NormalizePreview(raw)
      [] op = "deploy_stack"  -> NormalizeUp(raw)
      [] op = "destroy_stack" -> NormalizeDestroy(raw)

NormInit ==
    /\ engine = EngineInit
    /\ gocFirst = [n \in Names |-> NoHandle]
    /\ gcpProject = NoProject
    /\ files = <<>>
    /\ cleanup = <<>>
    /\ pool = PoolIdle
    /\ applied = [n \in Names |-> "none"]
    /\ \E op \in SummaryHandlers, raw \in AllRaws :
          resp = [NoRequest EXCEPT !.op = "result", !.name = op, !.raw = raw]

normalize ==
    /\ resp.op = "result"
    /\ LET s == NormalizerOf(resp.name, resp.raw)
       IN  resp' = [resp EXCEPT
                      !.op = "normalized",
                      !.reply = IF s.exc # "none" THEN ErrorReply(500, s.exc)
                                ELSE Reply(200, "DeploymentResult", "", NoInfo,
                                           DeploymentResult("", resp.name,
                                                            s.summary,
                                                            EmptyMap))]
    /\ UNCHANGED <<engine, gocFirst, gcpProject, files, cleanup, pool, applied>>

NormNext == normalize

SpecNorm == NormInit /\ [][NormNext]_vars

-----------------------------------------------------------------------------
(* The executor: service calls made at once, each a unit of work handed to *)
(* the pool of MaxWorkers threads and awaited by its caller.               *)

\* (one unit of work at a time)
OneAtATime(p) == Running(p) = {}

\* (a thread per unit of work)
NoLimit(p) == Cardinality(Running(p)) < MaxCallers + 1

\* ThreadPoolExecutor(max_workers=4): a thread is there for the next unit
WorkerFree(p) == Cardinality(Running(p)) < MaxWorkers

PoolEngine(S) ==
    [stacks    |-> S,
     config    |-> [n \in PoolNames |-> EmptyMap],
     outputs   |-> [n \in PoolNames |-> EmptyMap],
     resources |-> [n \in PoolNames |-> 0],
     epoch     |-> [n \in PoolNames |-> IF n \in S THEN 1 ELSE 0]]

LifecycleCallOf(op) ==
    CASE op = "preview_stack" -> "preview"
      [] op = "up_stack"      -> "up"
      [] op = "destroy_stack" -> "destroy"
      [] op = "refresh_stack" -> "refresh"

\* the unit of work of a public operation: _sync_preview, _sync_up,
\* _sync_destroy, _sync_refresh
UnitOfWork(op, e, n, f) ==
    CASE op = "preview_stack" -> SvcPreview(e, n, f, NoRaw)
      [] op = "up_stack"      ->
            SvcUp(e, n, f, IF f = NoFault THEN 1 ELSE e.resources[n], NoRaw)
      [] op = "destroy_stack" -> SvcDestroy(e, n, f, e.resources[n], NoRaw)
      [] op = "refresh_stack" -> SvcRefresh(e, n, f, e.resources[n], NoRaw)

\* run_in_executor: executor.submit puts the unit of work in the queue
Submitted(p, c) ==
    [p EXCEPT !.phase[c] = "queued", !.queue = Append(@, c)]

\* a worker thread takes the oldest unit of work and calls it
Started(p) ==
    LET c == Head(p.queue)
    IN  [p EXCEPT !.phase[c] = "running", !.queue = Tail(@),
                  !.runs[c] = @ + 1]

\* (a unit of work that raised is put in the queue again, once)
FinishedRetrying(p, c, exc, called) ==
    IF exc # "none" /\ p.runs[c] < 2
    THEN [p EXCEPT !.phase[c] = "queued", !.queue = Append(@, c),
                   !.calls[c] = @ + (IF called THEN 1 ELSE 0)]
    ELSE [p EXCEPT !.phase[c] = "finished", !.finished[c] = TRUE,
                   !.exc[c] = exc,
                   !.calls[c] = @ + (IF called THEN 1 ELSE 0)]

\* the unit of work returned or raised: the worker sets the future
Finished(p, c, exc, called) ==
    [p EXCEPT !.phase[c] = "finished", !.finished[c] = TRUE, !.exc[c] = exc,
              !.calls[c] = @ + (IF called THEN 1 ELSE 0)]

\* (the call returns without awaiting the future)
FireAndForget(p, c) == p.phase[c] \in {"queued", "running", "finished"}

\* await: the caller resumes when the future is set
Awaited(p, c) == p.phase[c] = "finished"

PoolInit ==
    /\ engine \in {PoolEngine(S) : S \in SUBSET PoolNames}
    /\ resp = NoRequest
    /\ gocFirst = [n \in Names |-> NoHandle]
    /\ gcpProject = NoProject
    /\ files = <<>>
    /\ cleanup = <<>>
    /\ pool \in {PoolOf(op) : op \in PoolOps}
    /\ applied = [n \in Names |-> "none"]

\* the event loop makes the calls one after the other: they are numbered
\* in the order they are made
run_in_executor ==
    /\ \E c \in Callers :
           /\ pool.phase[c] = "idle"
           /\ \A d \in 1..(c - 1) : pool.phase[d] # "idle"
           /\ pool' = Submitted(pool, c)
    /\ UNCHANGED <<engine, resp, gocFirst, gcpProject, files, cleanup, applied>>

worker_start ==
    /\ pool.queue # <<>>
    /\ WorkerFree(pool)
    /\ pool' = Started(pool)
    /\ UNCHANGED <<engine, resp, gocFirst, gcpProject, files, cleanup, applied>>

worker_finish ==
    /\ \E c \in Running(pool),
          f \in {NoFault} \cup LifecycleFaults(pool.op, LifecycleCallOf(pool.op)) :
           LET u == UnitOfWork(pool.op, engine, NameOf(c), f)
           IN  /\ f = NoFault \/ u.hit
               /\ engine' = u.eng
               /\ pool' = Finished(pool, c, u.exc,
                                   /\ NameOf(c) \in engine.stacks
                                   /\ ~Hits(f, pool.op, "select_stack"))
    /\ UNCHANGED <<resp, gocFirst, gcpProject, files, cleanup, applied>>

caller_resume ==
    /\ \E c \in Callers :
           /\ Awaited(pool, c)
           /\ pool' = [pool EXCEPT !.phase[c] = "returned"]
    /\ UNCHANGED <<engine, resp, gocFirst, gcpProject, files, cleanup, applied>>

PoolNext ==
    \/ run_in_executor
    \/ worker_start
    \/ worker_finish
    \/ caller_resume

SpecPool == PoolInit /\ [][PoolNext]_vars

\* a worker thread takes what is in the queue, and an engine call ends
FairSpecPool ==
    SpecPool /\ WF_vars(worker_start) /\ WF_vars(worker_finish)
             /\ WF_vars(caller_resume)

-----------------------------------------------------------------------------
(* Units of work on one stack, engine call by engine call: the worker      *)
(* threads of the executor run _sync_get_or_create, _sync_up and           *)
(* _sync_destroy at once, and nothing in PulumiService orders them.  A     *)
(* racer is idle, queued, about to call select_stack (select),             *)
(* create_stack (create), the at-th set_config of the defaults             *)
(* (set_config) or its lifecycle call (invoke), inside the lifecycle call  *)
(* (inflight), or done.  order lists the racers as they finished, seeded   *)
(* counts the calls that began writing the defaults, overlap[t] tells that *)
(* the lifecycle call of t was in flight together with another one.  The   *)
(* engine answers a lifecycle call that overlapped another on the same     *)
(* stack either with its result or with ConcurrentUpdateError.             *)

Racers == 1..MaxRacers

RaceOps == {"get_or_create", "up_stack", "destroy_stack"}

RaceTarget == "dev-alice"

RaceOf(ops) ==
    [op      |-> ops,
     pc      |-> [t \in Racers |-> "idle"],
     queue   |-> <<>>,
     exc     |-> [t \in Racers |-> "none"],
     at      |-> [t \in Racers |-> 0],
     overlap |-> [t \in Racers |-> FALSE],
     order   |-> <<>>,
     seeded  |-> 0]

Racing(p) == {t \in Racers : p.pc[t] \notin {"idle", "queued", "done"}}

InFlight(p) == {t \in Racers : p.pc[t] = "inflight"}

\* (a unit of work waits while another one runs on the stack)
RacerPerName(p) == Racing(p) = {}

\* ThreadPoolExecutor(max_workers=4), and no lock by stack name
RacerFree(p) == Cardinality(Racing(p)) < MaxWorkers

\* the unit of work of t returned, or raised exc
RaceDone(p, t, exc) ==
    [p EXCEPT !.pc[t] = "done", !.exc[t] = exc, !.order = Append(@, t)]

RaceInit ==
    /\ engine \in {EngineInit, EngCreate(EngineInit, RaceTarget)}
    /\ resp = NoRequest
    /\ gocFirst = [n \in Names |-> NoHandle]
    /\ gcpProject \in ProjectIds
    /\ files = <<>>
    /\ cleanup = <<>>
    /\ pool \in {RaceOf(ops) : ops \in [Racers -> RaceOps]}
    /\ applied = [n \in Names |-> "none"]

\* run_in_executor, in the order the event loop makes the calls
race_submit ==
    /\ \E t \in Racers :
           /\ pool.pc[t] = "idle"
           /\ \A d \in 1..(t - 1) : pool.pc[d] # "idle"
           /\ pool' = [pool EXCEPT !.pc[t] = "queued", !.queue = Append(@, t)]
    /\ UNCHANGED <<engine, resp, gocFirst, gcpProject, files, cleanup, applied>>

\* a worker thread takes the oldest unit of work
race_start ==
    /\ pool.queue # <<>>
    /\ RacerFree(pool)
    /\ pool' = [pool EXCEPT !.pc[Head(pool.queue)] = "select", !.queue = Tail(@)]
    /\ UNCHANGED <<engine, resp, gocFirst, gcpProject, files, cleanup, applied>>

\* auto.select_stack: StackNotFoundError for a stack that is not there,
\* which _sync_get_or_create catches and the lifecycle units let through
race_select ==
    /\ \E t \in Racers :
           /\ pool.pc[t] = "select"
           /\ pool' =
                 IF pool.op[t] = "get_or_create"
                 THEN IF RaceTarget \in engine.stacks
                      THEN RaceDone(pool, t, "none")
                      ELSE [pool EXCEPT !.pc[t] = "create"]
                 ELSE IF RaceTarget \in engine.stacks
                      THEN [pool EXCEPT !.pc[t] = "invoke"]
                      ELSE RaceDone(pool, t, "StackNotFoundError")
    /\ UNCHANGED <<engine, resp, gocFirst, gcpProject, files, cleanup, applied>>

\* auto.create_stack inside the except clause: StackAlreadyExistsError, which
\* nothing catches, for a stack that is there by now
race_create ==
    /\ \E t \in Racers :
           /\ pool.pc[t] = "create"
           /\ IF RaceTarget \in engine.stacks
              THEN /\ pool' = RaceDone(pool, t, "StackAlreadyExistsError")
                   /\ UNCHANGED engine
              ELSE /\ engine' = EngCreate(engine, RaceTarget)
                   /\ pool' = IF gcpProject = NoProject
                              THEN RaceDone(pool, t, "none")
                              ELSE [pool EXCEPT !.pc[t] = "set_config",
                                                !.at[t] = 1]
    /\ UNCHANGED <<resp, gocFirst, gcpProject, files, cleanup, applied>>

\* the four set_config calls of the defaults
race_set_config ==
    /\ \E t \in Racers :
           /\ pool.pc[t] = "set_config"
           /\ LET pair == DefaultPairs(gcpProject)[pool.at[t]]
                  p1 == [pool EXCEPT !.seeded = IF pool.at[t] = 1
                                                THEN @ + 1 ELSE @]
              IN  /\ engine' = EngSetConfig(engine, RaceTarget, pair[1], pair[2])
                  /\ pool' = IF pool.at[t] < Len(DefaultPairs(gcpProject))
                             THEN [p1 EXCEPT !.at[t] = @ + 1]
                             ELSE RaceDone(p1, t, "none")
    /\ UNCHANGED <<resp, gocFirst, gcpProject, files, cleanup, applied>>

\* stack.up / stack.destroy is called
RaceInvoke(t) ==
    /\ pool.pc[t] = "invoke"
    /\ pool' = [pool EXCEPT
                   !.pc[t] = "inflight",
                   !.overlap = [u \in Racers |->
                                   IF u = t THEN InFlight(pool) # {}
                                   ELSE @[u] \/ u \in InFlight(pool)]]
    /\ UNCHANGED <<engine, resp, gocFirst, gcpProject, files, cleanup, applied>>

race_invoke == \E t \in Racers : RaceInvoke(t)

\* stack.up / stack.destroy returns or raises
RaceReturn(t) ==
    /\ pool.pc[t] = "inflight"
    /\ \E exc \in {"none", "ConcurrentUpdateError"} :
           /\ exc # "none" => pool.overlap[t]
           /\ engine' =
                 IF exc # "none" THEN engine
                 ELSE IF pool.op[t] = "up_stack"
                 THEN SvcUp(engine, RaceTarget, NoFault, 1, NoRaw).eng
                 ELSE SvcDestroy(engine, RaceTarget, NoFault, 0, NoRaw).eng
           /\ pool' = RaceDone(pool, t, exc)
    /\ UNCHANGED <<resp, gocFirst, gcpProject, files, cleanup, applied>>

race_return == \E t \in Racers : RaceReturn(t)

RaceNext ==
    \/ race_submit
    \/ race_start
    \/ race_select
    \/ race_create
    \/ race_set_config
    \/ race_invoke
    \/ race_return

SpecRace == RaceInit /\ [][RaceNext]_vars

-----------------------------------------------------------------------------
(* The file service (services/file_service.py) under the handlers of       *)
(* api/files.py.  A path is the sequence of its segments, and a request    *)
(* path whose first segment is "/" is absolute.  The disk maps the files   *)
(* there are to their content; the directories are fixed and there are no  *)
(* symbolic links, which no operation of the service creates.  files.last  *)
(* is the last request answered that was not a create (same tells that it  *)
(* left the disk as it was), files.creating the create requests, each idle,*)
(* writing (it has checked the path and awaits the write) or done, and     *)
(* files.deleted the files deleted so far.                                 *)

\* settings.INFRA_DIR, resolved
InfraDir == <<"src", "infra">>

\* the paths a client sends
FilePaths ==
    {<<>>, <<"providers", "gcp.py">>, <<"providers", "..", "__main__.py">>,
     <<"..", "scripts">>, <<"..", "scripts", "cleanup_stacks.py">>,
     <<"/", "src", "scripts", "cleanup_stacks.py">>}

\* infra_dir / file_path: an absolute right operand replaces the left one
Join(base, p) == IF p # <<>> /\ p[1] = "/" THEN Tail(p) ELSE base \o p

\* Path.resolve(): the segments from the root, each ".." dropping the one
\* before it
RECURSIVE Resolve(_, _)
Resolve(done, rest) ==
    IF rest = <<>> THEN done
    ELSE IF Head(rest) = ".."
    THEN Resolve(IF done = <<>> THEN <<>> ELSE SubSeq(done, 1, Len(done) - 1),
                 Tail(rest))
    ELSE Resolve(Append(done, Head(rest)), Tail(rest))

\* (the joined path is tested as it is written)
IsSafePathUnresolved(p) ==
    LET full == Join(InfraDir, p)
    IN  /\ Len(full) >= Len(InfraDir)
        /\ SubSeq(full, 1, Len(InfraDir)) = InfraDir

\* FileService._is_safe_path: the resolved path is_relative_to infra_dir
IsSafePath(p) ==
    LET full == Resolve(<<>>, Join(InfraDir, p))
    IN  /\ Len(full) >= Len(InfraDir)
        /\ SubSeq(full, 1, Len(InfraDir)) = InfraDir

\* the operations of FileService on the disk d: what is raised, the disk
\* afterwards, the content read, the bool returned (file_exists; for
\* list_directory_tree whether a tree and not None is returned) and the
\* files listed
FileOp(op, d, p, content, validate) ==
    LET full == Resolve(<<>>, Join(InfraDir, p))
        dirs == {<<"src">>, InfraDir, InfraDir \o <<"providers">>,
                 <<"src", "scripts">>}
        isFile == full \in DOMAIN d
        exists == isFile \/ full \in dirs
        py == p # <<>> /\ p[Len(p)] \in {"__main__.py", "gcp.py",
                                         "cleanup_stacks.py"}
        under == {f \in DOMAIN d : /\ Len(f) > Len(full)
                                    /\ SubSeq(f, 1, Len(full)) = full}
        out(exc, disk, read, found, entries) ==
            [exc |-> exc, disk |-> disk, content |-> read, found |-> found,
             entries |-> entries]
        raise(exc) == out(exc, d, "", FALSE, {})
    IN  CASE op = "read_file" ->
                 IF ~IsSafePath(p) THEN raise("ValueError")
                 ELSE IF ~exists THEN raise("FileNotFoundError")
                 ELSE IF ~isFile THEN raise("ValueError")
                 ELSE out("none", d, d[full], TRUE, {})
          [] op = "write_file" ->
                 IF ~IsSafePath(p) THEN raise("ValueError")
                 ELSE IF validate /\ py /\ content = "bad"
                 THEN raise("SyntaxError")
                 ELSE IF full \in dirs THEN raise("IsADirectoryError")
                 ELSE out("none", Put(d, full, content), "", TRUE, {})
          [] op = "delete_file" ->
                 IF ~IsSafePath(p) THEN raise("ValueError")
                 ELSE IF ~exists THEN raise("FileNotFoundError")
                 ELSE IF ~isFile THEN raise("ValueError")
                 ELSE out("none", [f \in (DOMAIN d) \ {full} |-> d[f]], "",
                          TRUE, {})
          [] op = "file_exists" ->
                 out("none", d, "", IsSafePath(p) /\ isFile, {})
          [] op = "list_files" ->
                 IF p # <<>> /\ ~IsSafePath(p) THEN raise("ValueError")
                 ELSE out("none", d, "", TRUE, under)
          [] op = "list_directory_tree" ->
                 IF p # <<>> /\ ~IsSafePath(p) THEN raise("ValueError")
                 ELSE IF full \notin dirs THEN out("none", d, "", FALSE, {})
                 ELSE out("none", d, "", TRUE, under)

\* the status a handler of api/files.py answers with; the 409 of
\* create_file is raised inside the try and caught by except Exception
StatusOf(op, exc) ==
    CASE exc = "none" -> IF op = "create_file" THEN 201 ELSE 200
      [] exc \in {"ValueError", "SyntaxError"} -> 400
      [] exc = "FileNotFoundError" ->
             IF op \in {"read_file", "delete_file"} THEN 404 ELSE 500
      [] OTHER -> 500

FilesInit ==
    /\ engine = EngineInit
    /\ resp = NoRequest
    /\ gocFirst = [n \in Names |-> NoHandle]
    /\ gcpProject = NoProject
    /\ pool = PoolIdle
    /\ applied = [n \in Names |-> "none"]
    /\ cleanup = <<>>
    /\ \E gcp \in {{}, {InfraDir \o <<"providers", "gcp.py">>}} :
           files =
               [disk |-> [f \in {InfraDir \o <<"__main__.py">>,
                                 <<"src", "scripts", "cleanup_stacks.py">>}
                                \cup gcp |->
                             IF f[2] = "scripts" THEN "secret" ELSE "v0"],
                last |-> [op |-> "none", path |-> <<>>, status |-> 0,
                          content |-> "", entries |-> {}, same |-> TRUE],
                creating |-> [c \in 1..MaxCreates |->
                                 [pc |-> "idle", path |-> <<>>, status |-> 0]],
                deleted |-> {}]

\* a handler that makes one call of the service and answers
Answered(op, p, r, status) ==
    /\ files' = [files EXCEPT
                    !.disk = r.disk,
                    !.last = [op |-> op, path |-> p, status |-> status,
                              content |-> r.content, entries |-> r.entries,
                              same |-> r.disk = files.disk],
                    !.deleted = IF op = "delete_file" /\ r.exc = "none"
                                THEN @ \cup {Resolve(<<>>, Join(InfraDir, p))}
                                ELSE @]
    /\ UNCHANGED <<engine, resp, gocFirst, gcpProject, pool, applied, cleanup>>

\* GET /files/infra
list_files ==
    \E p \in FilePaths :
        LET r == FileOp("list_files", files.disk, p, "", FALSE)
        IN  Answered("list_files", p, r, StatusOf("list_files", r.exc))

\* GET /files/infra/tree: a None fails response_model=DirectoryTree
get_directory_tree ==
    \E p \in FilePaths :
        LET r == FileOp("list_directory_tree", files.disk, p, "", FALSE)
        IN  Answered("get_directory_tree", p, r,
                     IF r.exc = "none" /\ ~r.found THEN 500
                     ELSE StatusOf("get_directory_tree", r.exc))

\* GET /files/infra/{file_path}
read_file ==
    \E p \in FilePaths :
        LET r == FileOp("read_file", files.disk, p, "", FALSE)
        IN  Answered("read_file", p, r, StatusOf("read_file", r.exc))

\* PUT /files/infra/{file_path}
update_file ==
    \E p \in FilePaths, content \in {"v1", "bad"}, validate \in BOOLEAN :
        LET r == FileOp("write_file", files.disk, p, content, validate)
        IN  /\ content = "bad" => validate
            /\ Answered("update_file", p, r, StatusOf("update_file", r.exc))

\* DELETE /files/infra/{file_path}
delete_file ==
    \E p \in FilePaths :
        LET r == FileOp("delete_file", files.disk, p, "", FALSE)
        IN  Answered("delete_file", p, r, StatusOf("delete_file", r.exc))

\* POST /files/infra up to the await of the write: file_exists, then
\* write_file as far as aiofiles.open, where the event loop takes the next
\* request
create_file ==
    /\ \E c \in 1..MaxCreates,
          p \in {q \in FilePaths : q # <<>> /\ q[1] \in {"providers", "/"}
                                           /\ ".." \notin {q[i] : i \in DOMAIN q}} :
           LET e == FileOp("file_exists", files.disk, p, "", FALSE)
               w == FileOp("write_file", files.disk, p, ToString(c), TRUE)
           IN  /\ files.creating[c].pc = "idle"
               /\ files' = [files EXCEPT !.creating[c] =
                      IF e.found
                      THEN [pc |-> "done", path |-> p,
                            status |-> StatusOf("create_file", "HTTPException")]
                      ELSE IF w.exc # "none"
                      THEN [pc |-> "done", path |-> p,
                            status |-> StatusOf("create_file", w.exc)]
                      ELSE [pc |-> "writing", path |-> p, status |-> 0]]
    /\ UNCHANGED <<engine, resp, gocFirst, gcpProject, pool, applied, cleanup>>

\* the file is opened with 'w' and written, and 201 is answered
create_file_write ==
    /\ \E c \in 1..MaxCreates :
           LET p == files.creating[c].path
               w == FileOp("write_file", files.disk, p, ToString(c), TRUE)
           IN  /\ files.creating[c].pc = "writing"
               /\ files' = [files EXCEPT
                      !.disk = w.disk,
                      !.creating[c] =
                          [pc |-> "done", path |-> p,
                           status |-> StatusOf("create_file", w.exc)]]
    /\ UNCHANGED <<engine, resp, gocFirst, gcpProject, pool, applied, cleanup>>

FilesNext ==
    \/ list_files
    \/ get_directory_tree
    \/ read_file
    \/ update_file
    \/ delete_file
    \/ create_file
    \/ create_file_write

SpecFiles == FilesInit /\ [][FilesNext]_vars

-----------------------------------------------------------------------------
(* The cleanup script (scripts/cleanup_stacks.py).  A stack name is the    *)
(* sequence of its characters.  The expires_at tag of a stack is none (the *)
(* tag get command fails), empty, invalid (fromisoformat raises            *)
(* ValueError), or a time, aware (with an offset or Z) or naive; times are *)
(* numbers.  cleanup.now is the clock, read by should_destroy; log lists   *)
(* the destroy and rm commands run, each with the clock value its          *)
(* should_destroy read and whether it succeeded.  The script is at start,  *)
(* check (the loop, at the i-th of devs), destroy, rm, done, crashed (an   *)
(* exception nothing catches) or exit1 (sys.exit(1)).                      *)

\* pulumi stack ls --json --all, in the order it lists the stacks
ScriptStacks ==
    << <<"d", "e", "v", "-", "a">>, <<"p", "r", "o", "d">>,
       <<"d", "e", "v", "-", "b">>, <<"d", "e", "v">> >>

\* str.startswith
StartsWith(s, prefix) ==
    Len(s) >= Len(prefix) /\ SubSeq(s, 1, Len(prefix)) = prefix

\* (a stack that expires now is taken as expired)
ShouldDestroyNotStrict(tag, now) ==
    IF tag.kind \in {"none", "empty", "invalid"} THEN "False"
    ELSE IF tag.kind = "naive" THEN "TypeError"
    ELSE IF now >= tag.t THEN "True" ELSE "False"

\* should_destroy: False without a tag and on ValueError, now > expires_at
\* otherwise; comparing the aware now with a naive time raises TypeError
ShouldDestroy(tag, now) ==
    IF tag.kind \in {"none", "empty", "invalid"} THEN "False"
    ELSE IF tag.kind = "naive" THEN "TypeError"
    ELSE IF now > tag.t THEN "True" ELSE "False"

CleanupInit ==
    /\ engine = EngineInit
    /\ resp = NoRequest
    /\ gocFirst = [n \in Names |-> NoHandle]
    /\ gcpProject = NoProject
    /\ pool = PoolIdle
    /\ applied = [n \in Names |-> "none"]
    /\ files = <<>>
    /\ LET names == {ScriptStacks[i] : i \in DOMAIN ScriptStacks}
           notimes == {[kind |-> k, t |-> 0] : k \in {"none", "empty", "invalid"}}
           times == {[kind |-> k, t |-> t] : k \in {"naive", "aware"},
                                            t \in 0..MaxTime}
       IN  \E tags \in [names -> notimes \cup times] :
               /\ \A n \in names :
                     ~StartsWith(n, <<"d", "e", "v", "-">>)
                         => tags[n] \in {[kind |-> "none", t |-> 0],
                                         [kind |-> "aware", t |-> 0]}
               /\ cleanup = [tags |-> tags, present |-> names, pc |-> "start",
                             devs |-> <<>>, i |-> 0, now |-> 0, at |-> 0,
                             log |-> <<>>]

\* main: get_stacks, the dev- stacks, and the loop entered
get_stacks ==
    /\ cleanup.pc = "start"
    /\ \E ok \in BOOLEAN :
           LET IsDev(n) == StartsWith(n, <<"d", "e", "v", "-">>)
               devs == SelectSeq(ScriptStacks, IsDev)
           IN  cleanup' =
                   IF ~ok THEN [cleanup EXCEPT !.pc = "crashed"]
                   ELSE [cleanup EXCEPT !.devs = devs, !.i = 1,
                                        !.pc = IF devs = <<>> THEN "done"
                                               ELSE "check"]
    /\ UNCHANGED <<engine, resp, gocFirst, gcpProject, pool, applied, files>>

\* the loop of main at the i-th dev stack: should_destroy reads the tag and
\* the clock
should_destroy ==
    /\ cleanup.pc = "check"
    /\ \E now \in cleanup.now..MaxTime :
           LET n == cleanup.devs[cleanup.i]
               r == ShouldDestroy(cleanup.tags[n], now)
           IN  cleanup' =
                   IF r = "TypeError"
                   THEN [cleanup EXCEPT !.now = now, !.pc = "crashed"]
                   ELSE IF r = "True"
                   THEN [cleanup EXCEPT !.now = now, !.at = now,
                                        !.pc = "destroy"]
                   ELSE IF cleanup.i < Len(cleanup.devs)
                   THEN [cleanup EXCEPT !.now = now, !.i = @ + 1]
                   ELSE [cleanup EXCEPT !.now = now, !.pc = "done"]
    /\ UNCHANGED <<engine, resp, gocFirst, gcpProject, pool, applied, files>>

\* destroy_stack: pulumi destroy --yes; CalledProcessError ends the script
destroy_stack_script ==
    /\ cleanup.pc = "destroy"
    /\ \E ok \in BOOLEAN :
           cleanup' =
               [cleanup EXCEPT
                   !.log = Append(@, [cmd |-> "destroy",
                                      name |-> cleanup.devs[cleanup.i],
                                      at |-> cleanup.at, ok |-> ok]),
                   !.pc = IF ok THEN "rm" ELSE "exit1"]
    /\ UNCHANGED <<engine, resp, gocFirst, gcpProject, pool, applied, files>>

\* destroy_stack: pulumi stack rm --yes, then the next stack of the loop
stack_rm ==
    /\ cleanup.pc = "rm"
    /\ \E ok \in BOOLEAN :
           cleanup' =
               [cleanup EXCEPT
                   !.log = Append(@, [cmd |-> "rm",
                                      name |-> cleanup.devs[cleanup.i],
                                      at |-> cleanup.at, ok |-> ok]),
                   !.present = IF ok THEN @ \ {cleanup.devs[cleanup.i]} ELSE @,
                   !.i = IF ok /\ cleanup.i < Len(cleanup.devs)
                         THEN @ + 1 ELSE @,
                   !.pc = IF ~ok THEN "exit1"
                          ELSE IF cleanup.i < Len(cleanup.devs) THEN "check"
                          ELSE "done"]
    /\ UNCHANGED <<engine, resp, gocFirst, gcpProject, pool, applied, files>>

CleanupNext ==
    \/ get_stacks
    \/ should_destroy
    \/ destroy_stack_script
    \/ stack_rm

SpecCleanup == CleanupInit /\ [][CleanupNext]_vars

-----------------------------------------------------------------------------
(* Properties *)

Target == resp.name

Existed == resp.name \in resp.pre.stacks

EngineCallsOk == resp.trace.exc = "none"

Completed(operation) ==
    /\ resp.reply.status = 200
    /\ resp.reply.kind = "DeploymentResult"
    /\ resp.reply.result.status = "completed"
    /\ resp.reply.result.stack_name = Target
    /\ resp.reply.result.operation = operation

\* C1: once a get_or_create_stack call for a name that no engine failure
\* hit has returned a stack, every later such call with no delete_stack
\* call in between succeeds, returns that same stack and attempts no
\* create: the second of two calls selects.
C1_GetOrCreateIdempotent ==
    (resp.op = "create_stack" /\ resp.fault.svc # "get_or_create")
        => /\ resp.trace.exc = "none"
           /\ resp.trace.handle # NoHandle
           /\ resp.trace.handle.name = Target
           /\ resp.prior # NoHandle
                => /\ resp.trace.handle = resp.prior
                   /\ ~resp.trace.attempted
                   /\ engine.epoch = resp.pre.epoch

C1_Witness ==
    /\ resp.op = "create_stack"
    /\ resp.fault = NoFault
    /\ resp.prior # NoHandle
    /\ resp.trace.handle = resp.prior
    /\ ~resp.trace.attempted

\* C2: no request removes a stack that has resources: a delete_stack on a
\* stack with resource count > 0 answers with a failure and leaves the
\* stack, with everything it has, in the workspace.
C2_NoRemovalWithResources ==
    (resp.op # "none" /\ Existed /\ resp.pre.resources[Target] > 0)
        => /\ Target \in engine.stacks
           /\ resp.op = "delete_stack"
                => /\ ~resp.trace.ok
                   /\ resp.reply.kind = "Error"
                   /\ resp.reply.status = 500
                   /\ engine = resp.pre

C2_Witness ==
    /\ resp.op = "delete_stack"
    /\ resp.fault = NoFault
    /\ Existed
    /\ resp.pre.resources[Target] > 0
    /\ resp.reply.status = 500
    /\ Target \in engine.stacks

MustExistOps ==
    {"preview_stack", "deploy_stack", "destroy_stack", "refresh_stack",
     "delete_stack"}

\* C3: preview, up, destroy, refresh and delete for a name the engine does
\* not have end in a failure reported to the caller, and the name is still
\* absent afterwards.
C3_AbsentStackRejected ==
    (resp.op \in MustExistOps /\ ~Existed)
        => /\ resp.reply.kind = "Error"
           /\ resp.reply.status >= 400
           /\ engine = resp.pre

C3_Witness ==
    /\ resp.op = "preview_stack"
    /\ resp.fault = NoFault
    /\ ~Existed
    /\ resp.trace.exc = "StackNotFoundError"
    /\ resp.reply.status = 500

\* C4: get_stack_info for a name the engine does not have returns None,
\* raising nothing, and GET /stacks/{name} answers 404.
C4_InfoOfAbsentIsNotFound ==
    (resp.op = "get_stack" /\ ~Existed)
        => /\ resp.trace.infoNone
           /\ resp.trace.exc = "none"
           /\ resp.reply.kind = "Error"
           /\ resp.reply.status = 404

C4_Witness ==
    /\ resp.op = "get_stack"
    /\ resp.fault = NoFault
    /\ ~Existed
    /\ resp.trace.caught = "StackNotFoundError"
    /\ resp.reply.status = 404

\* C5: in get_stack_info a failed read of the configuration, and any other
\* engine failure that is not stack-not-found, reaches the caller as an
\* engine error; the not-found result is given only for an absent stack.
C5_InfoFailurePropagates ==
    resp.op = "get_stack"
        => /\ (resp.trace.infoNone \/ resp.reply.status = 404) => ~Existed
           /\ (Existed /\ resp.fault.call \in {"select_stack", "get_all_config",
                                               "list_stacks"})
                => /\ resp.reply.kind = "Error"
                   /\ resp.reply.status = 500

LacksCounts(raw) ==
    \/ raw.field \in {"absent", "null"}
    \/ raw.field = "dict" /\ DOMAIN raw.counts = {}

ZeroSummary(s) ==
    /\ s.present
    /\ s.created = 0 /\ s.updated = 0 /\ s.deleted = 0 /\ s.unchanged = 0

OperationOf(op) ==
    CASE op = "preview_stack" -> "preview"
      [] op = "deploy_stack"  -> "up"
      [] op = "destroy_stack" -> "destroy"
      [] OTHER                -> ""

\* C6: normalization is total: when the engine call of preview, up or
\* destroy succeeded and its result lacks the counts (the attribute is not
\* there, is None, or is an empty dict), the request completes with a
\* summary of four zeros.
C6_NormalizationTotal ==
    (resp.op \in SummaryHandlers /\ EngineCallsOk /\ LacksCounts(resp.raw))
        => /\ Completed(OperationOf(resp.op))
           /\ ZeroSummary(resp.reply.result.summary)

\* C7: the summary carries every count of the engine result: created =
\* create, updated = update, deleted = delete, unchanged = same, for every
\* handler that builds a summary.
C7_SummaryMatchesCounts ==
    (resp.op = "normalized" /\ resp.raw.field = "dict")
        => /\ resp.reply.status = 200
           /\ resp.reply.result.summary.present
           /\ resp.reply.result.summary.created = DictGet(resp.raw.counts, "create")
           /\ resp.reply.result.summary.updated = DictGet(resp.raw.counts, "update")
           /\ resp.reply.result.summary.deleted = DictGet(resp.raw.counts, "delete")
           /\ resp.reply.result.summary.unchanged = DictGet(resp.raw.counts, "same")

LifecycleHandlers ==
    {"preview_stack", "deploy_stack", "destroy_stack", "refresh_stack"}

C9_OutputsFailureTolerated ==
    /\ (resp.op = "deploy_stack" /\ EngineCallsOk
        /\ resp.fault.svc = "get_stack_outputs")
          => /\ Completed("up")
             /\ resp.reply.result.outputs = EmptyMap
    /\ (resp.op = "get_stack" /\ Existed
        /\ Hits(resp.fault, "get_stack_info", "outputs"))
          => /\ resp.reply.kind = "StackInfo"
             /\ resp.reply.info.name = Target
             /\ resp.reply.info.outputs = EmptyMap

\* the key the engine keeps a configuration value under
C10_StoredKey(k) == IF k.ns = "" THEN Key("iac-sandbox", k.name) ELSE k

C10_UpdateSucceeded ==
    /\ resp.op = "update_stack_config"
    /\ resp.reply.status = 200
    /\ resp.reply.kind = "StackInfo"

\* C10 as stated: after a successful update_stack_config(name, m) the
\* config of get_stack_info maps every key of m to its value in m and
\* every other key to its previous value.
C10_Original ==
    C10_UpdateSucceeded
        => LET m == resp.arg
               config == resp.reply.info.config
               before == resp.pre.config[Target]
               keys == {m[i][1] : i \in 1..Len(m)}
           IN  /\ \A i \in 1..Len(m) :
                     m[i][1] \in DOMAIN config /\ config[m[i][1]] = m[i][2]
               /\ \A k \in (DOMAIN config) \ keys :
                     k \in DOMAIN before /\ config[k] = before[k]

\* C10: after a successful update_stack_config(name, m) the config of
\* get_stack_info holds, under each key of m in the form the engine stores
\* it (the key itself when it names a namespace, project:key when it does
\* not), the value of the last pair of m with that stored key, and holds
\* every other key with its previous value; on a stack with an empty
\* config it holds the stored keys of m and nothing else.
C10_ConfigRoundTrip ==
    C10_UpdateSucceeded
        => LET m == resp.arg
               config == resp.reply.info.config
               before == resp.pre.config[Target]
               stored == {C10_StoredKey(m[i][1]) : i \in 1..Len(m)}
               last(k) == CHOOSE i \in 1..Len(m) :
                             /\ C10_StoredKey(m[i][1]) = k
                             /\ \A j \in 1..Len(m) :
                                   C10_StoredKey(m[j][1]) = k => j <= i
           IN  /\ DOMAIN config = (DOMAIN before) \cup stored
               /\ \A k \in stored : config[k] = m[last(k)][2]
               /\ \A k \in (DOMAIN before) \ stored : config[k] = before[k]
               /\ config = engine.config[Target]

C10_Witness ==
    /\ C10_UpdateSucceeded
    /\ resp.fault = NoFault
    /\ resp.pre.config[Target] = EmptyMap
    /\ Len(resp.arg) = 2
    /\ resp.arg[1] = <<Key("iac-sandbox", "provider"), "gcp">>
    /\ resp.arg[2] = <<Key("", "provider"), "aws">>
    /\ resp.reply.info.config = [k \in {Key("iac-sandbox", "provider")} |-> "aws"]

\* C11: get_or_create_stack writes the default configuration (gcp:project,
\* provider, region, app_image) only in the call that creates the stack and
\* only when a project id is configured: with none the new stack has an
\* empty config, and a call that selects an existing stack leaves its
\* config, and everything else, as it was.
C11_DefaultsOnlyOnCreate ==
    (resp.op = "create_stack" /\ resp.fault.svc # "get_or_create"
     /\ resp.arg = <<>>)
        => IF Existed
           THEN engine = resp.pre
           ELSE IF gcpProject = NoProject
           THEN engine.config[Target] = EmptyMap
           ELSE LET config == engine.config[Target]
                IN  /\ DOMAIN config =
                          {Key("gcp", "project"), Key("iac-sandbox", "provider"),
                           Key("iac-sandbox", "region"),
                           Key("iac-sandbox", "app_image")}
                    /\ config[Key("gcp", "project")] = gcpProject
                    /\ config[Key("iac-sandbox", "provider")] = "gcp"
                    /\ config[Key("iac-sandbox", "region")] = "us-central1"
                    /\ config[Key("iac-sandbox", "app_image")] =
                          AppImage(gcpProject)

C11_Witness ==
    /\ resp.op = "create_stack"
    /\ resp.fault = NoFault
    /\ resp.arg = <<>>
    /\ Existed
    /\ gcpProject # NoProject
    /\ resp.pre.config[Target][Key("iac-sandbox", "provider")] = "aws"
    /\ engine.config[Target] = resp.pre.config[Target]

\* the references of a resource set that name no urn of the set
Dangling(rs) ==
    LET urns == {r.urn : r \in rs}
    IN  {r \in rs : \/ r.parent # NoParent /\ r.parent \notin urns
                    \/ ~(r.dependencies \subseteq urns)}

\* C12: every resource list get_stack_resources hands to the caller is
\* closed under parent and dependencies; an export with a dangling parent
\* or dependency is answered with an error, never with the list.
C12_ResourceGraphClosed ==
    resp.op = "get_stack_resources"
        => /\ resp.reply.status = 200 => Dangling(resp.reply.resources) = {}
           /\ Dangling(resp.export) # {} => resp.reply.kind = "Error"

\* C13: up_stack calls for distinct names made at once do not block each
\* other: a call in the queue can be started whenever fewer than 4 units of
\* work are running, whatever the running ones are doing; a call fails only
\* when its own stack is absent or its own engine call fails, and one that
\* succeeded has applied its stack.
C13_AppliesIndependent ==
    pool.op = "up_stack"
        => /\ (pool.queue # <<>> /\ Cardinality(Running(pool)) < 4)
                => ENABLED worker_start
           /\ \A c \in Callers :
                 pool.finished[c]
                    => /\ pool.exc[c] = "StackNotFoundError"
                          => NameOf(c) \notin engine.stacks
                       /\ pool.exc[c] \in {"none", "CommandError",
                                            "StackNotFoundError"}
                       /\ pool.exc[c] = "none"
                            => /\ engine.resources[NameOf(c)] > 0
                               /\ engine.outputs[NameOf(c)] = ProgramOutputs

C13_Witness ==
    /\ pool.op = "up_stack"
    /\ pool.phase[1] = "running"
    /\ pool.phase[2] = "returned"
    /\ pool.exc[2] = "none"
    /\ NameOf(1) # NameOf(2)
    /\ pool.phase[3] = "idle"

\* C14: at most 4 units of work are running at any time; a call made
\* while 4 are running stays in the queue, once, until a worker takes it,
\* and every call in the queue is started in the end.
C14_BoundedPool ==
    /\ [](/\ Cardinality(Running(pool)) <= 4
          /\ \A c \in Callers :
                pool.phase[c] = "queued"
                   <=> Cardinality({i \in 1..Len(pool.queue) :
                                       pool.queue[i] = c}) = 1
          /\ \A i \in 1..Len(pool.queue) : pool.phase[pool.queue[i]] = "queued")
    /\ \A c \in Callers :
          (pool.phase[c] = "queued") ~> (pool.phase[c] = "running")

C14_Witness ==
    /\ Cardinality(Running(pool)) = 4
    /\ pool.queue # <<>>

\* C15: the unit of work of every call runs exactly once and makes its
\* engine lifecycle call at most once: it has not run before a worker took
\* it, it has run once from then on, and a call whose unit of work raised
\* is finished, with that exception, and is not in the queue again.
C15_RunsExactlyOnce ==
    \A c \in Callers :
        /\ pool.runs[c] <= 1
        /\ pool.calls[c] <= pool.runs[c]
        /\ pool.phase[c] \in {"idle", "queued"} => pool.runs[c] = 0
        /\ pool.phase[c] \in {"running", "finished", "returned"}
              => pool.runs[c] = 1
        /\ pool.finished[c]
              => /\ pool.phase[c] \in {"finished", "returned"}
                 /\ \A i \in 1..Len(pool.queue) : pool.queue[i] # c

C15_Witness ==
    /\ pool.op = "up_stack"
    /\ pool.phase[1] = "returned"
    /\ pool.exc[1] = "CommandError"
    /\ pool.runs[1] = 1
    /\ pool.calls[1] = 1

\* C16: no call returns to its caller before its unit of work has ended:
\* for preview, up, destroy and refresh the caller has the result or the
\* exception only when the worker has finished the engine call.
C16_NoEarlyReturn ==
    \A c \in Callers :
        pool.phase[c] = "returned"
            => /\ pool.op \in PoolOps
               /\ pool.finished[c]
               /\ pool.runs[c] >= 1
               /\ c \notin Running(pool)
               /\ pool.exc[c] # ""

C16_Witness ==
    /\ pool.op = "destroy_stack"
    /\ pool.phase[2] = "returned"
    /\ pool.exc[2] = "none"
    /\ pool.phase[1] = "running"

\* the handlers that apply or destroy
MutatingHandlers == {"deploy_stack", "destroy_stack"}

\* C17: only up and destroy change what a stack has deployed: every other
\* request leaves the resources of every stack as they were, except that a
\* refresh may drop from the stack's state the record of resources that
\* are gone (it creates none and touches no outputs and no config); a
\* preview, from any state of the stack, changes nothing at all: not the
\* resources, not the outputs, not the config.
C17_OnlyApplyAndDestroyMutate ==
    (resp.op # "none" /\ resp.op \notin MutatingHandlers)
        => /\ \A n \in Names :
                 engine.resources[n] <= resp.pre.resources[n]
           /\ resp.op # "refresh_stack"
                 => engine.resources = resp.pre.resources
           /\ resp.op = "refresh_stack"
                 => /\ engine.outputs = resp.pre.outputs
                    /\ engine.config = resp.pre.config
                    /\ engine.stacks = resp.pre.stacks
           /\ resp.op = "preview_stack" => engine = resp.pre

C17_Witness ==
    /\ resp.op = "preview_stack"
    /\ resp.fault = NoFault
    /\ resp.reply.status = 200
    /\ resp.pre.resources[Target] > 0
    /\ resp.pre.outputs[Target] # EmptyMap
    /\ resp.pre.config[Target] # EmptyMap
    /\ resp.raw.field = "dict"
    /\ engine = resp.pre

\* C18 as stated: a stack that has had no successful up reports empty
\* outputs and a resource count of 0 through get_stack_info, also after a
\* failed or partial up.
C18_Original ==
    (resp.reply.kind = "StackInfo" /\ applied[Target] # "ok")
        => /\ resp.reply.info.outputs = EmptyMap
           /\ resp.reply.info.resource_count = 0

\* C18: a stack on which no up was made since it was created reports empty
\* outputs and a resource count of 0 through get_stack_info, whatever
\* config updates, previews and refreshes it has seen; a stack whose ups
\* all failed reports empty outputs, and as resource count what the failed
\* ups left, which may be more than 0.
C18_NoApplyNoResources ==
    /\ \A n \in Names :
          /\ applied[n] = "none"
                => engine.outputs[n] = EmptyMap /\ engine.resources[n] = 0
          /\ applied[n] = "failed" => engine.outputs[n] = EmptyMap
          /\ n \notin engine.stacks => applied[n] = "none"
    /\ resp.reply.kind = "StackInfo"
          => /\ applied[Target] = "none"
                   => /\ resp.reply.info.outputs = EmptyMap
                      /\ resp.reply.info.resource_count = 0
             /\ applied[Target] = "failed"
                   => /\ resp.reply.info.outputs = EmptyMap
                      /\ resp.reply.info.resource_count
                            = engine.resources[Target]

C18_Witness ==
    /\ resp.op = "get_stack"
    /\ resp.fault = NoFault
    /\ resp.reply.kind = "StackInfo"
    /\ applied[Target] = "failed"
    /\ resp.reply.info.resource_count > 0
    /\ resp.reply.info.outputs = EmptyMap

\* C19: a POST /stacks for a name the engine already has is answered 409
\* before any service call is made, and the stack, with its config, is as
\* it was.
C19_CreateExistingRejected ==
    (resp.op = "create_stack" /\ Existed)
        => /\ resp.reply.kind = "Error"
           /\ resp.reply.status = 409
           /\ engine.config[Target] = resp.pre.config[Target]

\* the endpoints that target a stack by its name in the path
StackEndpoints ==
    {"get_stack", "delete_stack", "update_stack_config", "get_stack_outputs",
     "get_stack_resources", "preview_stack", "deploy_stack", "destroy_stack",
     "refresh_stack"}

\* C20: every endpoint that targets a stack the engine does not have
\* answers 404, and 500 is the answer only to a failure that is not a
\* missing stack.
C20_AbsentIsNotFound ==
    (resp.op \in StackEndpoints /\ ~Existed /\ resp.fault = NoFault)
        => /\ resp.reply.kind = "Error"
           /\ resp.reply.status = 404

\* C21: an engine failure inside delete_stack or update_stack_config is
\* answered with an error whose detail is the engine's message.
C21_EngineMessagePreserved ==
    (/\ resp.op \in {"delete_stack", "update_stack_config"}
     /\ resp.fault.svc = resp.op
     /\ resp.trace.hit)
        => /\ resp.reply.kind = "Error"
           /\ resp.reply.detail = "CommandError"

\* C22: list_stacks raises nothing: it answers the empty list when the
\* workspace listing failed, as it does for a workspace without stacks, and
\* one summary per stack of the workspace when the listing succeeded.
C22_ListNeverRaises ==
    resp.op = "list_stacks"
        => /\ resp.trace.exc = "none"
           /\ resp.reply.kind = "Summaries"
           /\ resp.fault # NoFault => resp.reply.stacks = {}
           /\ resp.pre.stacks = {} => resp.reply.stacks = {}
           /\ resp.fault = NoFault
                 => /\ {s.name : s \in resp.reply.stacks} = resp.pre.stacks
                    /\ Cardinality(resp.reply.stacks)
                          = Cardinality(resp.pre.stacks)
           /\ engine = resp.pre

C22_Witness ==
    /\ resp.op = "list_stacks"
    /\ resp.fault = Fault("list_stacks", "list_stacks", 1)
    /\ resp.pre.stacks = Names
    /\ resp.reply.stacks = {}
    /\ resp.reply.status = 200

\* C24: update_stack_config sets the pairs in order and takes nothing back:
\* when the set_config of the k-th pair fails the request is answered with
\* an error, the config holds the values of the pairs before the k-th (the
\* last one written under each stored key) and its previous values under
\* every other key, and no pair from the k-th on is written; on a stack the
\* engine does not have the request is answered with an error and the stack
\* is not created.
C24_PartialApplication ==
    resp.op = "update_stack_config"
        => /\ ~Existed
                 => /\ resp.reply.kind = "Error"
                    /\ ~resp.trace.ok
                    /\ Target \notin engine.stacks
                    /\ engine = resp.pre
           /\ (Existed /\ Hits(resp.fault, "update_stack_config", "set_config"))
                 => LET m == resp.arg
                        k == resp.fault.at
                        before == resp.pre.config[Target]
                        config == engine.config[Target]
                        stored == {C10_StoredKey(m[i][1]) : i \in 1..(k - 1)}
                        last(q) == CHOOSE i \in 1..(k - 1) :
                                      /\ C10_StoredKey(m[i][1]) = q
                                      /\ \A j \in 1..(k - 1) :
                                            C10_StoredKey(m[j][1]) = q => j <= i
                    IN  /\ resp.reply.kind = "Error"
                        /\ ~resp.trace.ok
                        /\ DOMAIN config = (DOMAIN before) \cup stored
                        /\ \A q \in stored : config[q] = m[last(q)][2]
                        /\ \A q \in (DOMAIN before) \ stored : config[q] = before[q]

C24_Witness ==
    /\ resp.op = "update_stack_config"
    /\ resp.fault = Fault("update_stack_config", "set_config", 2)
    /\ resp.reply.status = 500
    /\ Len(resp.arg) = 2
    /\ resp.arg[1] = <<Key("", "provider"), "aws">>
    /\ resp.arg[2] = <<Key("iac-sandbox", "provider"), "gcp">>
    /\ resp.pre.config[Target] = [k \in {Key("iac-sandbox", "provider")} |-> "gcp"]
    /\ engine.config[Target] = [k \in {Key("iac-sandbox", "provider")} |-> "aws"]

\* C27: a POST /stacks with an initial config that is answered 201 has
\* written every pair of it: the body is the info of the stack, whose
\* config holds under each stored key the value of the last pair written
\* under it, and update_stack_config did not fail.
C27_CreatedImpliesConfigured ==
    (resp.op = "create_stack" /\ resp.reply.status = 201 /\ resp.arg # <<>>)
        => LET m == resp.arg
               config == resp.reply.info.config
               stored == {C10_StoredKey(m[i][1]) : i \in 1..Len(m)}
               last(q) == CHOOSE i \in 1..Len(m) :
                             /\ C10_StoredKey(m[i][1]) = q
                             /\ \A j \in 1..Len(m) :
                                   C10_StoredKey(m[j][1]) = q => j <= i
           IN  /\ resp.reply.kind = "StackInfo"
               /\ resp.reply.info.name = Target
               /\ resp.trace.ok
               /\ stored \subseteq DOMAIN config
               /\ \A q \in stored : config[q] = m[last(q)][2]

\* C25: get_or_create_stack calls made at once for one name the engine
\* does not have all return the stack: none of them raises, and the
\* defaults are written by one of them only.
C25_ConcurrentGetOrCreateConverge ==
    (\A t \in Racers : pool.op[t] = "get_or_create")
        => /\ \A t \in Racers : pool.exc[t] = "none"
           /\ pool.seeded <= 1

\* C26: nothing orders the units of work by stack name.  A queued unit is
\* taken as soon as a worker is free, whatever runs on its stack; a unit
\* that has selected the stack makes its lifecycle call while others are in
\* flight on it; and of the calls in flight any one may return first.
C26_NoMutualExclusion ==
    /\ (pool.queue # <<>> /\ Cardinality(Racing(pool)) < MaxWorkers)
          => ENABLED race_start
    /\ \A t \in Racers : pool.pc[t] = "invoke" => ENABLED RaceInvoke(t)
    /\ \A t \in Racers : pool.pc[t] = "inflight" => ENABLED RaceReturn(t)

\* an up and, submitted after it, a destroy of the same stack were in
\* flight together, and the destroy returned first
C26_Witness ==
    /\ pool.op[1] = "up_stack"
    /\ pool.op[2] = "destroy_stack"
    /\ pool.pc[1] = "inflight"
    /\ pool.overlap[1]
    /\ pool.overlap[2]
    /\ pool.order = <<2>>
    /\ pool.exc[2] = "none"

C28_CreateNeverOverwrites ==
    \A c, d \in 1..MaxCreates :
        (/\ c # d
         /\ files.creating[c].pc = "done"
         /\ files.creating[d].pc = "done"
         /\ files.creating[c].path = <<"providers", "gcp.py">>
         /\ files.creating[c].path = files.creating[d].path
         /\ files.deleted = {})
            => /\ ~(files.creating[c].status = 201 /\ files.creating[d].status = 201)
               /\ files.creating[c].status \in {201, 409}

\* C29: the cleanup script runs destroy and rm only on a stack whose name
\* starts with dev- and whose expires_at tag is a time before the clock
\* value should_destroy read; rm is run only right after the destroy of the
\* same stack succeeded; and a stack is gone only by such an rm.
C29_CleanupOnlyExpiredDev ==
    LET log == cleanup.log
        names == {ScriptStacks[i] : i \in DOMAIN ScriptStacks}
    IN  /\ \A i \in DOMAIN log :
              /\ Len(log[i].name) >= 4
              /\ SubSeq(log[i].name, 1, 4) = <<"d", "e", "v", "-">>
              /\ cleanup.tags[log[i].name].kind = "aware"
              /\ cleanup.tags[log[i].name].t < log[i].at
              /\ log[i].at <= cleanup.now
              /\ log[i].cmd = "rm"
                    => /\ i > 1
                       /\ log[i - 1].cmd = "destroy"
                       /\ log[i - 1].name = log[i].name
                       /\ log[i - 1].ok
        /\ \A n \in names \ cleanup.present :
              \E i \in DOMAIN log :
                  log[i].cmd = "rm" /\ log[i].name = n /\ log[i].ok

\* dev-a, expired, was destroyed and removed; dev-b, which expires at the
\* time the clock shows, and prod, expired, were left alone
C29_Witness ==
    /\ cleanup.pc = "done"
    /\ cleanup.present =
          {ScriptStacks[i] : i \in DOMAIN ScriptStacks} \ {ScriptStacks[1]}
    /\ Len(cleanup.log) = 2
    /\ cleanup.tags[ScriptStacks[2]] = [kind |-> "aware", t |-> 0]
    /\ cleanup.tags[ScriptStacks[3]] = [kind |-> "aware", t |-> cleanup.now]
    /\ cleanup.tags[ScriptStacks[4]] = [kind |-> "aware", t |-> 0]

====
